---- MODULE Spec2Model ----
(***************************************************************************)
(* fs-latency-exporter (src/src/main.rs): a probe loop on the main thread  *)
(* that seeks and reads one random 4096-byte block of the target per       *)
(* cycle and records the outcome in a Prometheus registry, and a metrics   *)
(* server thread that renders the registry on request.                     *)
(*                                                                         *)
(* Latencies and bucket bounds are in units of 10 microseconds (1e-5 s),   *)
(* so that the bucket bound 0.0001 s is 10 and 1.0 s is 100000.            *)
(***************************************************************************)
EXTENDS Integers, Sequences, FiniteSets

VARIABLES
    interval,   \* the parsed --interval value (f32), as its literal
    mainPc,     \* position of the main thread
    srvPc,      \* position of the metrics server thread
    exitStatus, \* process exit status, -1 while the process runs
    fatal,      \* which exit site ended the process, "none" while it runs
    fileOpen,   \* the target has been opened
    fileSize,   \* file_size
    filePos,    \* position of the file handle
    ptr,        \* address of buffer[0] of the 8192-byte Vec
    padding,    \* padding computed for the aligned view
    bufStart,   \* address of the first byte of the aligned view
    bufLen,     \* length of the aligned view
    offset,     \* offset sampled in the current cycle
    timing,     \* a timer started by Instant::now() is running
    registry,   \* the default registry: errors_total and read_time_seconds
    snapshot,   \* <<>> or <<body>>, the last response of the /metrics route
    cycles,     \* number of cycles started
    nFailed,    \* number of cycles whose seek or read failed
    nSucceeded, \* number of cycles whose read filled the buffer
    ops,        \* what the current cycle has done so far, in order
    dirty       \* the registry was written since the last response

vars == <<interval, mainPc, srvPc, exitStatus, fatal, fileOpen, fileSize, filePos,
          ptr, padding, bufStart, bufLen, offset, timing, registry, snapshot,
          cycles, nFailed, nSucceeded, ops, dirty>>

----------------------------------------------------------------------------
(* Bounds of the model *)

MaxCycles == 3

----------------------------------------------------------------------------
(* Program constants *)

BlockSize == 4096

BufAlloc == 8192

(* Bucket upper bounds of read_time_seconds, in units of 1e-5 s. *)
Buckets == <<10, 25, 50, 100, 250, 500, 1000, 2500, 5000, 10000, 25000, 50000, 100000>>

NumBuckets == Len(Buckets)

(* Index of the implicit +Inf bucket. *)
InfBucket == NumBuckets + 1

----------------------------------------------------------------------------
(* Inputs *)

(* Values that parse as f32 for --interval. *)
Intervals == {"-1.0", "0.0", "0.5", "1e30", "inf", "NaN"}

(* Lengths the target's metadata can report. *)
FileSizes == {0, 4095, 4096, 8192, 10000}

(* Addresses the allocator can return for the 8192-byte Vec. *)
BaseAddrs == {65536, 65552, 69631}

(* Elapsed times a successful cycle can measure: 0.0001 s, 0.0003 s, 2.0 s. *)
LatencySamples == {10, 30, 200000}

ReadResults == {"ok", "err", "short"}

----------------------------------------------------------------------------
(* Pure functions *)

(* Duration::from_secs_f32 panics on a negative, overflowing or non-finite
   value. *)
FromSecsF32Panics(i) == i \in {"-1.0", "1e30", "inf", "NaN"}

(* The status passed to exit() at each fatal site of the target's setup; a
   panic of the main thread ends the process with status 101. *)
ExitStatusOf(site) ==
    CASE site = "open" -> 1
      [] site = "metadata" -> 1
      [] site = "small" -> 1
      [] site \in {"slice", "gen_range", "sleep"} -> 101

TooSmallOffByOne(size) == size < BlockSize - 1

(* file_size < 4096 *)
TooSmall(size) == size < BlockSize

PaddingNoComplement(p) == p % BlockSize

PaddingWrapped(p) == (BlockSize - (p % BlockSize)) % BlockSize

(* let padding = 4096 - ptr % 4096; *)
Padding(p) == BlockSize - (p % BlockSize)

(* &mut buffer[padding..padding + 4096] is in bounds of the Vec. *)
SliceInBounds(pad) == pad + BlockSize <= BufAlloc

BlockRangeInclusive(size) == 0 .. (size \div BlockSize)

(* The values rng.gen_range(0..file_size / 4096) can return. *)
BlockRange(size) == 0 .. (size \div BlockSize) - 1

EmptyHistogram ==
    [buckets |-> [i \in 1..InfBucket |-> 0], sum |-> 0, count |-> 0]

EmptyRegistry == [errors |-> 0, latency |-> EmptyHistogram]

IncErrorsDropped(reg) == reg

IncErrorsTwice(reg) == [reg EXCEPT !.errors = @ + 2]

(* errors.inc() *)
IncErrors(reg) == [reg EXCEPT !.errors = @ + 1]

ObserveOneBucket(reg, v) ==
    [reg EXCEPT !.latency =
        [buckets |-> [i \in 1..InfBucket |->
                        IF /\ i = InfBucket \/ v <= Buckets[i]
                           /\ \A j \in 1..(i - 1) : v > Buckets[j]
                        THEN reg.latency.buckets[i] + 1
                        ELSE reg.latency.buckets[i]],
         sum |-> reg.latency.sum + v,
         count |-> reg.latency.count + 1]]

ObserveStrictBound(reg, v) ==
    [reg EXCEPT !.latency =
        [buckets |-> [i \in 1..InfBucket |->
                        IF i = InfBucket \/ v < Buckets[i]
                        THEN reg.latency.buckets[i] + 1
                        ELSE reg.latency.buckets[i]],
         sum |-> reg.latency.sum + v,
         count |-> reg.latency.count + 1]]

(* latency.observe(v): every cumulative bucket whose bound is >= v, the +Inf
   bucket, the sum and the count. *)
Observe(reg, v) ==
    [reg EXCEPT !.latency =
        [buckets |-> [i \in 1..InfBucket |->
                        IF i = InfBucket \/ v <= Buckets[i]
                        THEN reg.latency.buckets[i] + 1
                        ELSE reg.latency.buckets[i]],
         sum |-> reg.latency.sum + v,
         count |-> reg.latency.count + 1]]

(* prometheus::gather() and TextEncoder::encode: one sample line per counter
   value, per bucket in ascending order, +Inf (le = -1), sum and count. *)
Encode(reg) ==
    <<[name |-> "errors_total", le |-> 0, value |-> reg.errors]>>
    \o [i \in 1..NumBuckets |->
          [name |-> "read_time_seconds_bucket", le |-> Buckets[i],
           value |-> reg.latency.buckets[i]]]
    \o <<[name |-> "read_time_seconds_bucket", le |-> -1,
          value |-> reg.latency.buckets[InfBucket]],
         [name |-> "read_time_seconds_sum", le |-> 0, value |-> reg.latency.sum],
         [name |-> "read_time_seconds_count", le |-> 0, value |-> reg.latency.count]>>

----------------------------------------------------------------------------
(* State *)

ProcessAlive == exitStatus = -1

ReadBufferWholeVec == <<ptr, BufAlloc>>

(* The slice `buffer` handed to read_exact: its address and length. *)
ReadBuffer == <<bufStart, bufLen>>

(* One step of a cycle: sampling (arg = offset), Instant::now(), seek
   (arg = offset), read_exact (arg, len = the buffer), elapsed (arg = the
   duration) or the completed sleep. *)
Event(op, arg, len, ok) == [op |-> op, arg |-> arg, len |-> len, ok |-> ok]

(* Positions of the main thread inside the probe loop. *)
LoopPcs == {"sample", "timer", "seek", "read", "sleep"}

(* Positions at which a probe cycle is executing. *)
CyclePcs == {"timer", "seek", "read"}

Init ==
    /\ interval \in Intervals
    /\ mainPc = "spawn"
    /\ srvPc = "unspawned"
    /\ exitStatus = -1
    /\ fatal = "none"
    /\ fileOpen = FALSE
    /\ fileSize = 0
    /\ filePos = 0
    /\ ptr = 0
    /\ padding = 0
    /\ bufStart = 0
    /\ bufLen = 0
    /\ offset = 0
    /\ timing = FALSE
    /\ registry = EmptyRegistry
    /\ snapshot = <<>>
    /\ cycles = 0
    /\ nFailed = 0
    /\ nSucceeded = 0
    /\ ops = <<>>
    /\ dirty = FALSE

(* exit(status) at a fatal site: the whole process ends. *)
Exit(site) ==
    /\ mainPc' = "exited"
    /\ exitStatus' = ExitStatusOf(site)
    /\ fatal' = site

(* A panic on the main thread ends the process. *)
MainPanic(site) ==
    /\ mainPc' = "panicked"
    /\ exitStatus' = ExitStatusOf(site)
    /\ fatal' = site

----------------------------------------------------------------------------
(* Main thread *)

SpawnServerSkipped ==
    /\ ProcessAlive
    /\ mainPc = "spawn"
    /\ mainPc' = "open"
    /\ UNCHANGED <<interval, srvPc, exitStatus, fatal, fileOpen, fileSize, filePos,
                   ptr, padding, bufStart, bufLen, offset, timing, registry,
                   snapshot, cycles, nFailed, nSucceeded, ops, dirty>>

(* std::thread::spawn of the metrics server thread. *)
SpawnServer ==
    /\ ProcessAlive
    /\ mainPc = "spawn"
    /\ mainPc' = "open"
    /\ srvPc' = "starting"
    /\ UNCHANGED <<interval, exitStatus, fatal, fileOpen, fileSize, filePos, ptr,
                   padding, bufStart, bufLen, offset, timing, registry, snapshot,
                   cycles, nFailed, nSucceeded,
                   ops, dirty>>

(* opener.open(&filename) *)
OpenFile ==
    /\ ProcessAlive
    /\ mainPc = "open"
    /\ \E ok \in BOOLEAN :
         IF ok
         THEN /\ fileOpen' = TRUE
              /\ mainPc' = "metadata"
              /\ UNCHANGED <<exitStatus, fatal>>
         ELSE /\ Exit("open")
              /\ UNCHANGED fileOpen
    /\ UNCHANGED <<interval, srvPc, fileSize, filePos, ptr, padding, bufStart,
                   bufLen, offset, timing, registry, snapshot, cycles, nFailed,
                   nSucceeded,
                   ops, dirty>>

(* file.metadata() *)
ReadMetadata ==
    /\ ProcessAlive
    /\ mainPc = "metadata"
    /\ \E ok \in BOOLEAN, size \in FileSizes :
         IF ok
         THEN /\ fileSize' = size
              /\ mainPc' = "sizecheck"
              /\ UNCHANGED <<exitStatus, fatal>>
         ELSE /\ Exit("metadata")
              /\ UNCHANGED fileSize
    /\ UNCHANGED <<interval, srvPc, fileOpen, filePos, ptr, padding, bufStart,
                   bufLen, offset, timing, registry, snapshot, cycles, nFailed,
                   nSucceeded,
                   ops, dirty>>

(* if file_size < 4096 { exit(1) } *)
SizeCheck ==
    /\ ProcessAlive
    /\ mainPc = "sizecheck"
    /\ IF TooSmall(fileSize)
       THEN Exit("small")
       ELSE /\ mainPc' = "alloc"
            /\ UNCHANGED <<exitStatus, fatal>>
    /\ UNCHANGED <<interval, srvPc, fileOpen, fileSize, filePos, ptr, padding,
                   bufStart, bufLen, offset, timing, registry, snapshot, cycles,
                   nFailed, nSucceeded,
                   ops, dirty>>

(* vec![0; 8192] placed at address p, the aligned view and
   assert_eq!(buffer.len(), 4096). *)
MakeBufferAt(p) ==
    /\ ProcessAlive
    /\ mainPc = "alloc"
    /\ ptr' = p
    /\ padding' = Padding(p)
    /\ IF SliceInBounds(Padding(p))
       THEN /\ bufStart' = p + Padding(p)
            /\ bufLen' = (Padding(p) + BlockSize) - Padding(p)
            /\ mainPc' = "sample"
            /\ UNCHANGED <<exitStatus, fatal>>
       ELSE /\ MainPanic("slice")
            /\ UNCHANGED <<bufStart, bufLen>>
    /\ UNCHANGED <<interval, srvPc, fileOpen, fileSize, filePos, offset, timing,
                   registry, snapshot, cycles, nFailed, nSucceeded,
                   ops, dirty>>

MakeBuffer == \E p \in BaseAddrs : MakeBufferAt(p)

(* let offset = rng.gen_range(0..file_size / 4096) * 4096, with block n. *)
SampleAt(n) ==
    /\ ProcessAlive
    /\ mainPc = "sample"
    /\ cycles < MaxCycles
    /\ n \in BlockRange(fileSize)
    /\ offset' = n * BlockSize
    /\ cycles' = cycles + 1
    /\ ops' = <<Event("sample", n * BlockSize, 0, TRUE)>>
    /\ mainPc' = "timer"
    /\ UNCHANGED <<interval, srvPc, exitStatus, fatal, fileOpen, fileSize, filePos,
                   ptr, padding, bufStart, bufLen, timing, registry, snapshot,
                   nFailed, nSucceeded,
                   dirty>>

(* gen_range panics on an empty range. *)
SampleOffset ==
    IF BlockRange(fileSize) = {}
    THEN /\ ProcessAlive
         /\ mainPc = "sample"
         /\ cycles < MaxCycles
         /\ MainPanic("gen_range")
         /\ UNCHANGED <<interval, srvPc, fileOpen, fileSize, filePos, ptr, padding,
                        bufStart, bufLen, offset, timing, registry, snapshot,
                        cycles, nFailed, nSucceeded, ops, dirty>>
    ELSE \E n \in BlockRange(fileSize) : SampleAt(n)

StartTimerOnce ==
    /\ ProcessAlive
    /\ mainPc = "timer"
    /\ timing' = TRUE
    /\ ops' = IF cycles = 1 THEN Append(ops, Event("start", 0, 0, TRUE)) ELSE ops
    /\ mainPc' = "seek"
    /\ UNCHANGED <<interval, srvPc, exitStatus, fatal, fileOpen, fileSize, filePos,
                   ptr, padding, bufStart, bufLen, offset, registry, snapshot,
                   cycles, nFailed, nSucceeded, dirty>>

(* let start = Instant::now(); *)
StartTimer ==
    /\ ProcessAlive
    /\ mainPc = "timer"
    /\ timing' = TRUE
    /\ ops' = Append(ops, Event("start", 0, 0, TRUE))
    /\ mainPc' = "seek"
    /\ UNCHANGED <<interval, srvPc, exitStatus, fatal, fileOpen, fileSize, filePos,
                   ptr, padding, bufStart, bufLen, offset, registry, snapshot,
                   cycles, nFailed, nSucceeded,
                   dirty>>

SeekFallThrough ==
    /\ ProcessAlive
    /\ mainPc = "seek"
    /\ \E ok \in BOOLEAN :
         IF ok
         THEN /\ filePos' = offset
              /\ ops' = Append(ops, Event("seek", offset, 0, TRUE))
              /\ UNCHANGED <<registry, nFailed, dirty>>
         ELSE /\ registry' = IncErrors(registry)
              /\ dirty' = TRUE
              /\ ops' = Append(ops, Event("seek", offset, 0, FALSE))
              /\ nFailed' = nFailed + 1
              /\ UNCHANGED filePos
    /\ mainPc' = "read"
    /\ UNCHANGED <<interval, srvPc, exitStatus, fatal, fileOpen, fileSize, ptr,
                   padding, bufStart, bufLen, offset, timing, snapshot, cycles,
                   nSucceeded>>

(* file.seek(SeekFrom::Start(offset)) and its Err arm. *)
Seek ==
    /\ ProcessAlive
    /\ mainPc = "seek"
    /\ \E ok \in BOOLEAN :
         IF ok
         THEN /\ filePos' = offset
              /\ ops' = Append(ops, Event("seek", offset, 0, TRUE))
              /\ mainPc' = "read"
              /\ UNCHANGED <<registry, timing, nFailed, dirty>>
         ELSE /\ registry' = IncErrors(registry)
              /\ dirty' = TRUE
              /\ ops' = Append(ops, Event("seek", offset, 0, FALSE))
              /\ nFailed' = nFailed + 1
              /\ timing' = FALSE
              /\ mainPc' = "sleep"
              /\ UNCHANGED filePos
    /\ UNCHANGED <<interval, srvPc, exitStatus, fatal, fileOpen, fileSize, ptr,
                   padding, bufStart, bufLen, offset, snapshot, cycles, nSucceeded>>

(* file.read_exact(buffer) and its two arms. *)
Read ==
    /\ ProcessAlive
    /\ mainPc = "read"
    /\ \E res \in ReadResults, v \in LatencySamples :
         IF res = "ok"
         THEN /\ registry' = Observe(registry, v)
              /\ ops' = ops \o <<Event("read", ReadBuffer[1], ReadBuffer[2], TRUE),
                                  Event("elapsed", v, 0, TRUE)>>
              /\ filePos' = filePos + ReadBuffer[2]
              /\ nSucceeded' = nSucceeded + 1
              /\ UNCHANGED nFailed
         ELSE /\ registry' = IncErrors(registry)
              /\ ops' = Append(ops, Event("read", ReadBuffer[1], ReadBuffer[2], FALSE))
              /\ nFailed' = nFailed + 1
              /\ UNCHANGED <<filePos, nSucceeded>>
    /\ dirty' = TRUE
    /\ timing' = FALSE
    /\ mainPc' = "sleep"
    /\ UNCHANGED <<interval, srvPc, exitStatus, fatal, fileOpen, fileSize, ptr,
                   padding, bufStart, bufLen, offset, snapshot, cycles>>

(* std::thread::sleep(Duration::from_secs_f32(interval)) *)
Sleep ==
    /\ ProcessAlive
    /\ mainPc = "sleep"
    /\ IF FromSecsF32Panics(interval)
       THEN /\ MainPanic("sleep")
            /\ UNCHANGED ops
       ELSE /\ mainPc' = "sample"
            /\ ops' = Append(ops, Event("sleep", 0, 0, TRUE))
            /\ UNCHANGED <<exitStatus, fatal>>
    /\ UNCHANGED <<interval, srvPc, fileOpen, fileSize, filePos, ptr, padding,
                   bufStart, bufLen, offset, timing, registry, snapshot, cycles,
                   nFailed, nSucceeded,
                   dirty>>

----------------------------------------------------------------------------
(* Metrics server thread *)

(* warp::serve(routes).run(metrics_addr): binding the address; run panics on
   the server thread when the bind fails. *)
ServerBind ==
    /\ ProcessAlive
    /\ srvPc = "starting"
    /\ \E ok \in BOOLEAN : srvPc' = IF ok THEN "listening" ELSE "panicked"
    /\ UNCHANGED <<interval, mainPc, exitStatus, fatal, fileOpen, fileSize, filePos,
                   ptr, padding, bufStart, bufLen, offset, timing, registry,
                   snapshot, cycles, nFailed, nSucceeded,
                   ops, dirty>>

ServeMetricsResetting ==
    /\ ProcessAlive
    /\ srvPc = "listening"
    /\ snapshot' = <<Encode(registry)>>
    /\ registry' = EmptyRegistry
    /\ dirty' = FALSE
    /\ UNCHANGED <<interval, mainPc, srvPc, exitStatus, fatal, fileOpen, fileSize,
                   filePos, ptr, padding, bufStart, bufLen, offset, timing,
                   cycles, nFailed, nSucceeded, ops>>

ServeMetricsWhenIdle ==
    /\ ProcessAlive
    /\ srvPc = "listening"
    /\ mainPc \notin {"seek", "read", "sleep"}
    /\ snapshot' = <<Encode(registry)>>
    /\ dirty' = FALSE
    /\ UNCHANGED <<interval, mainPc, srvPc, exitStatus, fatal, fileOpen, fileSize,
                   filePos, ptr, padding, bufStart, bufLen, offset, timing,
                   registry, cycles, nFailed, nSucceeded, ops>>

(* The closure of the "metrics" route. *)
ServeMetrics ==
    /\ ProcessAlive
    /\ srvPc = "listening"
    /\ snapshot' = <<Encode(registry)>>
    /\ dirty' = FALSE
    /\ UNCHANGED <<interval, mainPc, srvPc, exitStatus, fatal, fileOpen, fileSize,
                   filePos, ptr, padding, bufStart, bufLen, offset, timing,
                   registry, cycles, nFailed, nSucceeded,
                   ops>>

----------------------------------------------------------------------------

Next ==
    \/ SpawnServer
    \/ OpenFile
    \/ ReadMetadata
    \/ SizeCheck
    \/ MakeBuffer
    \/ SampleOffset
    \/ StartTimer
    \/ Seek
    \/ Read
    \/ Sleep
    \/ ServerBind
    \/ ServeMetrics

Spec == Init /\ [][Next]_vars

----------------------------------------------------------------------------
(* The aligned buffer over every base address of two consecutive pages:
   the state when the main thread reaches the allocation, and the
   allocation at any address. *)

AllBaseAddrs == 65536 .. (65536 + 2 * BlockSize - 1)

InitBuffer ==
    /\ interval = "0.5"
    /\ mainPc = "alloc"
    /\ srvPc = "starting"
    /\ exitStatus = -1
    /\ fatal = "none"
    /\ fileOpen = TRUE
    /\ fileSize = 10000
    /\ filePos = 0
    /\ ptr = 0
    /\ padding = 0
    /\ bufStart = 0
    /\ bufLen = 0
    /\ offset = 0
    /\ timing = FALSE
    /\ registry = EmptyRegistry
    /\ snapshot = <<>>
    /\ cycles = 0
    /\ nFailed = 0
    /\ nSucceeded = 0
    /\ ops = <<>>
    /\ dirty = FALSE

MakeBufferAnywhere ==
    /\ mainPc = "alloc"
    /\ \E p \in AllBaseAddrs : MakeBufferAt(p)

NextBuffer == MakeBufferAnywhere

SpecBuffer == InitBuffer /\ [][NextBuffer]_vars

----------------------------------------------------------------------------
(* Properties *)

(* Number of cycles that have run to their end. *)
CompletedCycles == IF mainPc \in CyclePcs THEN cycles - 1 ELSE cycles

(* C1: cycle accounting. errors_total is the number of cycles that failed
   (seek error, read error or short read), read_time_seconds_count is the
   number of cycles that succeeded, and the two add up to the number of
   completed cycles: each cycle does exactly one of errors.inc() and
   latency.observe(). *)
C1_CycleAccounting ==
    /\ registry.errors = nFailed
    /\ registry.latency.count = nSucceeded
    /\ registry.errors + registry.latency.count = CompletedCycles

C1_Witness ==
    /\ mainPc = "sleep"
    /\ cycles = 3
    /\ nFailed = 2
    /\ nSucceeded = 1
    /\ registry.errors = 2
    /\ registry.latency.count = 1

(* C2: when the metrics endpoint cannot bind its address the process ends
   and the probe loop is never entered: no state has the bind failed and a
   probe cycle executing. *)
C2_BindFailureIsFatal ==
    srvPc = "panicked" => ~(ProcessAlive /\ mainPc \in CyclePcs)

(* C3: a target that cannot be opened, or is shorter than one block, ends
   startup with a non-zero exit status before any probe cycle; wherever the
   probe loop executes, the target is open and fileSize >= 4096. *)
C3_NoProbeWithoutValidTarget ==
    /\ mainPc \in LoopPcs => fileOpen /\ fileSize >= 4096
    /\ cycles > 0 => fileOpen /\ fileSize >= 4096
    /\ mainPc \in {"alloc"} \cup LoopPcs => fileOpen /\ fileSize >= 4096
    /\ fatal \in {"open", "metadata", "small"} =>
         /\ ~ProcessAlive
         /\ exitStatus # 0
         /\ cycles = 0
         /\ registry = EmptyRegistry

C3_Witness ==
    /\ fatal = "small"
    /\ fileOpen
    /\ fileSize = 4095
    /\ mainPc = "exited"
    /\ exitStatus = 1
    /\ cycles = 0

(* C4: target too small, target unopenable and bind failure each end the
   process with a non-zero exit status that differs from the status of the
   other two. *)
C4_DistinctExitStatus ==
    /\ fatal = "open" => exitStatus # 0 /\ exitStatus # ExitStatusOf("small")
    /\ fatal = "small" => exitStatus # 0 /\ exitStatus # ExitStatusOf("open")
    /\ srvPc = "panicked" =>
         /\ ~ProcessAlive
         /\ exitStatus \notin {0, ExitStatusOf("open"), ExitStatusOf("small")}

(* C5: the offset of a cycle is non-negative, a multiple of 4096 and leaves
   one whole block before the end of the target, also when fileSize is no
   multiple of 4096; every block index below fileSize / 4096 can be sampled;
   for fileSize = 8192 the offsets are exactly 0 and 4096. *)
C5_OffsetInRange ==
    /\ mainPc \in CyclePcs =>
         /\ 0 <= offset
         /\ offset % 4096 = 0
         /\ offset + 4096 <= fileSize
         /\ fileSize = 8192 => offset \in {0, 4096}
    /\ (ProcessAlive /\ mainPc = "sample" /\ cycles < MaxCycles) =>
         \A n \in 0 .. (fileSize \div 4096) - 1 : ENABLED SampleAt(n)

C5_Witness ==
    /\ mainPc = "seek"
    /\ fileSize = 10000
    /\ offset = 4096

(* C6: for every base address of the 8192-byte allocation the aligned view
   starts at a multiple of 4096, is exactly 4096 bytes long and lies inside
   the allocation; building it never fails. *)
C6_AlignedBufferInBounds ==
    /\ fatal # "slice"
    /\ mainPc # "alloc" =>
         /\ bufStart % 4096 = 0
         /\ bufLen = 4096
         /\ padding + 4096 <= 8192
         /\ ptr <= bufStart
         /\ bufStart + bufLen <= ptr + 8192
         /\ bufStart = ptr + padding

C6_Witness ==
    /\ mainPc = "sample"
    /\ ptr % 4096 = 1
    /\ padding = 4095
    /\ bufLen = 4096

(* C7 as stated: the view starts at the smallest offset >= 0 whose address
   is a multiple of 4096, and at offset 0 when the base address is already
   a multiple of 4096. *)
C7_SmallestOffsetFromZero ==
    mainPc # "alloc" =>
        /\ (ptr + padding) % 4096 = 0
        /\ \A k \in 0 .. (padding - 1) : (ptr + k) % 4096 # 0
        /\ ptr % 4096 = 0 => padding = 0

(* C7 amended: the view starts at the smallest offset >= 1 whose address is
   a multiple of 4096; when the base address is already a multiple of 4096
   the offset is 4096, not 0. *)
C7_SmallestPositiveOffset ==
    mainPc # "alloc" =>
        /\ padding >= 1
        /\ (ptr + padding) % 4096 = 0
        /\ \A k \in 1 .. (padding - 1) : (ptr + k) % 4096 # 0
        /\ ptr % 4096 = 0 => padding = 4096

C7_Witness ==
    /\ mainPc = "sample"
    /\ ptr % 4096 = 0
    /\ padding = 4096
    /\ bufStart = ptr + 4096

(* C8: after every cycle the loop reaches Resting, sleeps and starts another
   cycle; the only step the main thread takes from Resting is to the next
   cycle's sampling, and the loop never crashes or exits the process. *)
C8_RestingLeadsToNextCycle ==
    [][mainPc = "sleep" => mainPc' \in {"sleep", "sample"}]_vars

(* C10: histogram monotonicity. For bucket bounds b1 < b2 among the 13
   bounds and +Inf, the cumulative count at b1 is at most the one at b2,
   and the +Inf count equals read_time_seconds_count. *)
C10_HistogramMonotone ==
    /\ NumBuckets = 13
    /\ \A i, j \in 1 .. NumBuckets : i < j <=> Buckets[i] < Buckets[j]
    /\ \A i, j \in 1 .. InfBucket :
         i < j => registry.latency.buckets[i] <= registry.latency.buckets[j]
    /\ registry.latency.buckets[InfBucket] = registry.latency.count

C10_Witness ==
    /\ registry.latency.count = 3
    /\ registry.latency.buckets[1] = 1
    /\ registry.latency.buckets[2] = 1
    /\ registry.latency.buckets[3] = 2
    /\ registry.latency.buckets[NumBuckets] = 2
    /\ registry.latency.buckets[InfBucket] = 3

(* The last step the current cycle has logged. *)
LastOp(log) == log[Len(log)]

(* Positions in the cycle's log of the steps of one kind. *)
OpsAt(kind) == {i \in 1 .. Len(ops) : ops[i].op = kind}

(* The value of the sample line `name` of a response body. *)
SampleValue(body, name) ==
    body[CHOOSE i \in 1 .. Len(body) : body[i].name = name].value

(* C11: one observation v adds exactly 1 to the cumulative count of every
   bucket whose bound is >= v, to +Inf and to the count, and leaves the
   buckets below v alone: 0.0003 s leaves 0.0001 and 0.00025 unchanged and
   increments 0.0005 .. 1.0 and +Inf; a value above 1.0 s increments only
   +Inf. *)
C11_ObserveIncrementsUpperBuckets ==
    [][registry'.latency # registry.latency =>
         LET v == LastOp(ops').arg
             old == registry.latency
             new == registry'.latency
             changed == {i \in 1 .. InfBucket : new.buckets[i] # old.buckets[i]}
         IN /\ LastOp(ops').op = "elapsed"
            /\ new.count = old.count + 1
            /\ new.sum = old.sum + v
            /\ new.buckets[InfBucket] = old.buckets[InfBucket] + 1
            /\ \A i \in 1 .. NumBuckets :
                 new.buckets[i] = old.buckets[i] + (IF Buckets[i] >= v THEN 1 ELSE 0)
            /\ v = 30 => changed = 3 .. 14
            /\ v = 10 => changed = 1 .. 14
            /\ v > 100000 => changed = {14}
      ]_vars

C11_Witness ==
    /\ registry.latency.count = 1
    /\ registry.latency.sum = 30
    /\ registry.latency.buckets[1] = 0
    /\ registry.latency.buckets[2] = 0
    /\ registry.latency.buckets[3] = 1
    /\ registry.latency.buckets[InfBucket] = 1

(* C12: serving a metrics request leaves the registry unchanged; a response
   differs from the previous one only when the probe loop wrote the registry
   in between; only the probe loop's seek and read steps write the
   registry. *)
C12_ServingLeavesRegistry ==
    [][/\ (snapshot' # snapshot \/ (dirty /\ ~dirty')) => registry' = registry
       /\ snapshot' # snapshot => (snapshot = <<>> \/ dirty)
       /\ registry' # registry =>
            /\ mainPc \in {"seek", "read"}
            /\ mainPc' = "sleep"
            /\ snapshot' = snapshot
            /\ srvPc' = srvPc
      ]_vars

C12_Witness ==
    /\ snapshot # <<>>
    /\ ~dirty
    /\ registry.errors = 1
    /\ registry.latency.count = 1
    /\ SampleValue(snapshot[1], "errors_total") = 1
    /\ SampleValue(snapshot[1], "read_time_seconds_count") = 1

(* C13: errors_total never decreases and is never reset: every step leaves
   it alone or adds exactly 1, and it grows only in the step that ends a
   cycle on a failed seek or a failed read. *)
C13_ErrorsMonotone ==
    [][/\ registry'.errors \in {registry.errors, registry.errors + 1}
       /\ registry'.errors # registry.errors =>
            /\ mainPc \in {"seek", "read"}
            /\ mainPc' = "sleep"
            /\ LastOp(ops').op \in {"seek", "read"}
            /\ ~LastOp(ops').ok
            /\ nFailed' = nFailed + 1
      ]_vars

C13_Witness ==
    /\ registry.errors = 2
    /\ snapshot # <<>>
    /\ SampleValue(snapshot[1], "errors_total") = 1

(* The order of a cycle's steps on the target: at most one seek and one
   read, the seek at the offset sampled in this cycle, the read only right
   after a successful seek, and nothing but the sleep after a failed seek. *)
CycleLogInOrder ==
    /\ Cardinality(OpsAt("seek")) <= 1
    /\ Cardinality(OpsAt("read")) <= 1
    /\ ops # <<>> => ops[1].op = "sample"
    /\ mainPc \in CyclePcs \cup {"sleep"} => ops[1].arg = offset
    /\ \A i \in OpsAt("seek") : ops[i].arg = ops[1].arg
    /\ \A i \in OpsAt("read") :
         /\ i > 1
         /\ ops[i - 1].op = "seek"
         /\ ops[i - 1].ok
    /\ \A i \in OpsAt("seek") :
         ~ops[i].ok => \A j \in (i + 1) .. Len(ops) : ops[j].op = "sleep"

(* C14: a failed seek ends the cycle without a read: errors_total grows by
   exactly 1, no latency is observed, the file position is untouched and the
   loop goes to the sleep; each cycle issues at most one seek and at most
   one read, the read only after a successful seek to the offset sampled in
   the same cycle. *)
C14_SeekFailureSkipsRead ==
    /\ []CycleLogInOrder
    /\ [][(mainPc = "seek" /\ mainPc' # "seek" /\ ~LastOp(ops').ok) =>
            /\ mainPc' = "sleep"
            /\ registry'.errors = registry.errors + 1
            /\ registry'.latency = registry.latency
            /\ filePos' = filePos
         ]_vars

C14_Witness ==
    /\ mainPc = "sample"
    /\ cycles = 1
    /\ Len(ops) = 4
    /\ ops[3].op = "seek"
    /\ ~ops[3].ok
    /\ ops[4].op = "sleep"
    /\ registry.errors = 1
    /\ registry.latency.count = 0

(* C15: the endpoint and the probe loop never block each other: with the
   endpoint listening, a request is answered with the current registry
   state while the loop is at its seek, its read or its sleep; and whatever
   the endpoint does, the loop's next step can be taken. *)
C15_NoMutualBlocking ==
    /\ (ProcessAlive /\ srvPc = "listening" /\ mainPc \in {"seek", "read", "sleep"}) =>
         ENABLED (ServeMetrics /\ snapshot' = <<Encode(registry)>>)
    /\ (ProcessAlive /\ mainPc = "timer") => ENABLED StartTimer
    /\ (ProcessAlive /\ mainPc = "seek") => ENABLED Seek
    /\ (ProcessAlive /\ mainPc = "read") => ENABLED Read
    /\ (ProcessAlive /\ mainPc = "sleep") => ENABLED Sleep

C15_Witness ==
    /\ srvPc = "listening"
    /\ mainPc = "read"
    /\ cycles = 2
    /\ ~dirty
    /\ snapshot = <<Encode(registry)>>
    /\ registry.latency.count = 1

(* The order of a cycle's steps around the timer: Instant::now() right
   after the sampling, the seek right after it, elapsed() only right after
   a read that filled the buffer, and the completed sleep last. *)
TimerLogInOrder ==
    /\ \A i \in OpsAt("start") : i = 2 /\ ops[1].op = "sample"
    /\ \A i \in OpsAt("seek") : i = 3 /\ ops[2].op = "start"
    /\ \A i \in OpsAt("elapsed") :
         /\ i = 5
         /\ ops[2].op = "start"
         /\ ops[3].op = "seek" /\ ops[3].ok
         /\ ops[4].op = "read" /\ ops[4].ok
    /\ \A i \in OpsAt("sleep") : i = Len(ops) /\ i > 3
    /\ timing <=> (ops # <<>> /\ LastOp(ops).op \in {"start", "seek"} /\ LastOp(ops).ok)

(* C16: the timer starts after the offset is sampled and before the seek,
   and is read only after a successful full-buffer read, so the latency
   spans the seek and the read and never the sleep; a cycle starts only
   after the previous cycle's sleep has completed. *)
C16_TimerSpansSeekAndRead ==
    /\ []TimerLogInOrder
    /\ [][(mainPc' = "timer" /\ mainPc # "timer") =>
            /\ mainPc = "sample"
            /\ cycles = 0 \/ (ops # <<>> /\ LastOp(ops).op = "sleep")
         ]_vars

C16_Witness ==
    /\ mainPc = "sleep"
    /\ cycles = 2
    /\ Len(ops) = 5
    /\ ops[2].op = "start"
    /\ ops[5].op = "elapsed"
    /\ ~timing

(* C17: the aligned buffer is computed once before the loop: no step of the
   loop changes the allocation or the view, and the read of every cycle
   uses that same aligned 4096-byte region. *)
C17_BufferReused ==
    /\ [](\A i \in OpsAt("read") :
            /\ ops[i].arg = bufStart
            /\ ops[i].len = bufLen
            /\ ops[i].arg = ptr + padding
            /\ ops[i].len = 4096)
    /\ [][(mainPc \in LoopPcs) =>
            /\ ptr' = ptr
            /\ padding' = padding
            /\ bufStart' = bufStart
            /\ bufLen' = bufLen
         ]_vars

C17_Witness ==
    /\ mainPc = "sleep"
    /\ cycles = 3
    /\ Len(ops) >= 4
    /\ ops[4].op = "read"
    /\ ops[4].arg = bufStart
    /\ ops[4].len = 4096

(* C18: for every interval the command line accepts, the first cycle's
   sleep completes and a second cycle starts; the sleep never panics. *)
C18_SleepNeverPanics ==
    /\ fatal # "sleep"
    /\ mainPc # "panicked"

(* C19: the server thread is spawned before the target is opened, so the
   endpoint can answer while no cycle has run, also when startup then exits
   fatally; such a response shows errors_total 0 and
   read_time_seconds_count 0. *)
C19_SnapshotBeforeAnyCycle ==
    /\ mainPc # "spawn" => srvPc # "unspawned"
    /\ (ProcessAlive /\ srvPc = "listening"
          /\ mainPc \in {"open", "metadata", "sizecheck"}) => ENABLED ServeMetrics
    /\ (snapshot # <<>> /\ cycles = 0) =>
         /\ SampleValue(snapshot[1], "errors_total") = 0
         /\ SampleValue(snapshot[1], "read_time_seconds_count") = 0

C19_Witness ==
    /\ snapshot # <<>>
    /\ mainPc = "exited"
    /\ fatal = "small"
    /\ cycles = 0
    /\ SampleValue(snapshot[1], "errors_total") = 0

====
